---- MODULE Spec2Model ----
(***************************************************************************)
(* A model of the HTML-subset parser of rust-browser                       *)
(* (src/src/html/parser.rs, src/src/html/dom.rs).                          *)
(*                                                                         *)
(* A byte is modelled as a one-character string, a byte buffer or a Rust   *)
(* String as a sequence of such characters.  The inputs are ASCII, so the  *)
(* `u8 as char` conversion of get_tag_data and the from_utf8 conversions   *)
(* of get_text_content / strip_attribute_value_quotes map every byte to    *)
(* the character of the same code.  `position` is 0-based as in the code;  *)
(* the byte at `position` is input[position + 1].                          *)
(*                                                                         *)
(* A Rust panic (index out of bounds, slice index order) is the outcome    *)
(* "panic": the call neither returns Ok nor Err.                           *)
(***************************************************************************)
EXTENDS Naturals, Sequences, FiniteSets, TLC

VARIABLES input, position, pc, stack, result, iterations

vars == <<input, position, pc, stack, result, iterations>>

(***************************************************************************)
(* Bounds of the input families.                                           *)
(***************************************************************************)
MaxRawLen == 6
MaxTextLen == 3
MaxAttrLen == 7
MaxTailLen == 2

(***************************************************************************)
(* parser.rs:3-7 and the "=" of parse_attribute_section.                    *)
(***************************************************************************)
GREATER_THAN == ">"
LESS_THAN == "<"
WHITESPACE == " "
SLASH == "/"
QUOTE == "\""
EQUALS == "="

Letters ==
    {"a", "b", "c", "d", "e", "f", "g", "h", "i", "j", "k", "l", "m",
     "n", "o", "p", "q", "r", "s", "t", "u", "v", "w", "x", "y", "z",
     "A", "B", "C", "D", "E", "F", "G", "H", "I", "J", "K", "L", "M",
     "N", "O", "P", "Q", "R", "S", "T", "U", "V", "W", "X", "Y", "Z"}

Digits == {"0", "1", "2", "3", "4", "5", "6", "7", "8", "9"}

\* char::is_alphanumeric on the ASCII range
IsAlphanumeric(c) == c \in Letters \cup Digits

\* char::is_whitespace on the ASCII range, as used by str::trim
\* (U+0009..U+000D and U+0020; U+000B has no TLA+ string escape)
IsWhitespaceChar(c) == c \in {" ", "\t", "\n", "\r", "\f"}

(***************************************************************************)
(* String helpers of the Rust standard library, as the parser uses them.   *)
(***************************************************************************)
RECURSIVE IndexFrom(_, _, _)
\* least i >= from with s[i] = c, or 0 when there is none
IndexFrom(s, c, from) ==
    IF from > Len(s) THEN 0
    ELSE IF s[from] = c THEN from
    ELSE IndexFrom(s, c, from + 1)

\* str::split_once(c): <<found, left, right>>
SplitOnce(s, c) ==
    LET i == IndexFrom(s, c, 1)
    IN  IF i = 0 THEN [found |-> FALSE, left |-> s, right |-> <<>>]
        ELSE [found |-> TRUE,
              left |-> SubSeq(s, 1, i - 1),
              right |-> SubSeq(s, i + 1, Len(s))]

RECURSIVE Split(_, _)
\* str::split(c): the sections between the occurrences of c, at least one
Split(s, c) ==
    LET i == IndexFrom(s, c, 1)
    IN  IF i = 0 THEN <<s>>
        ELSE <<SubSeq(s, 1, i - 1)>> \o Split(SubSeq(s, i + 1, Len(s)), c)

RECURSIVE TrimStart(_)
TrimStart(s) ==
    IF s # <<>> /\ IsWhitespaceChar(s[1]) THEN TrimStart(Tail(s)) ELSE s

RECURSIVE TrimEnd(_)
TrimEnd(s) ==
    IF s # <<>> /\ IsWhitespaceChar(s[Len(s)])
    THEN TrimEnd(SubSeq(s, 1, Len(s) - 1))
    ELSE s

RECURSIVE TrimSpacesStart(_)
TrimSpacesStart(s) ==
    IF s # <<>> /\ s[1] = " " THEN TrimSpacesStart(Tail(s)) ELSE s

RECURSIVE TrimSpacesEnd(_)
TrimSpacesEnd(s) ==
    IF s # <<>> /\ s[Len(s)] = " "
    THEN TrimSpacesEnd(SubSeq(s, 1, Len(s) - 1))
    ELSE s

\* a trim of 0x20 only (str::trim_matches(' ')) in place of str::trim
TrimSpacesOnly(s) == TrimSpacesEnd(TrimSpacesStart(s))

\* str::trim
Trim(s) == TrimEnd(TrimStart(s))

(***************************************************************************)
(* dom.rs                                                                  *)
(***************************************************************************)
TextNode(content) == [type |-> "Text", content |-> content]

ElementNode(tag_name, attributes, children) ==
    [type |-> "Element", tag_name |-> tag_name,
     attributes |-> attributes, children |-> children]

\* ElementAttributes::new(): the empty map
EmptyAttributes == <<>>

(***************************************************************************)
(* Outcomes of a fallible operation.                                       *)
(***************************************************************************)
Err(error, detail) == [kind |-> "err", error |-> error, detail |-> detail]

Panic(site) == [kind |-> "panic", site |-> site]

UnexpectedTokenError(expected, found, pos) ==
    Err("UnexpectedToken", [expected |-> expected, found |-> found, position |-> pos])

PrematureEndOfFileError(pos) == Err("PrematureEndOfFile", [position |-> pos])

GenericError(pos) == Err("Generic", [position |-> pos])

InvalidIdentifierError(identifier) ==
    Err("InvalidIdentifier", [identifier |-> identifier])

InvalidAttributeValueError(value) ==
    Err("InvalidAttributeValue", [value |-> value])

(***************************************************************************)
(* Parser: the static helpers.                                             *)
(***************************************************************************)
eof(inp, pos) == pos >= Len(inp)

validate_identifier(tag_name) ==
    \A i \in 1..Len(tag_name) : IsAlphanumeric(tag_name[i])

\* "panic" when chars[0] is out of bounds, else the boolean
validate_attribute_value(value) ==
    IF Len(value) = 0 THEN "panic"
    ELSE IF value[1] # QUOTE \/ value[Len(value)] # QUOTE THEN "false"
    ELSE "true"

\* "panic" when the slice 1..len-1 starts after its end
strip_attribute_value_quotes(value) ==
    IF Len(value) < 2 THEN Panic("strip_attribute_value_quotes")
    ELSE [kind |-> "ok", value |-> SubSeq(value, 2, Len(value) - 1)]

parse_attribute_section(section) ==
    LET sp == SplitOnce(section, EQUALS)
    IN  IF sp.found
        THEN IF ~validate_identifier(sp.left)
             THEN InvalidIdentifierError(sp.left)
             ELSE LET valid == validate_attribute_value(sp.right)
                  IN  IF valid = "panic" THEN Panic("validate_attribute_value")
                      ELSE IF valid = "false"
                      THEN InvalidAttributeValueError(sp.right)
                      ELSE LET stripped == strip_attribute_value_quotes(sp.right)
                           IN  IF stripped.kind = "panic" THEN stripped
                               ELSE [kind |-> "ok", key |-> sp.left,
                                     value |-> stripped.value]
        ELSE [kind |-> "ok", key |-> section, value |-> <<>>]

\* the loop body without its contains_key guard: HashMap::insert overwrites
InsertAttributeOverwriting(parsed_attributes, key, value) ==
    (key :> value) @@ parsed_attributes

\* the body of the for loop of parse_attributes: contains_key, else insert
InsertAttribute(parsed_attributes, key, value) ==
    IF key \in DOMAIN parsed_attributes THEN parsed_attributes
    ELSE parsed_attributes @@ (key :> value)

RECURSIVE ParseSections(_, _, _)
ParseSections(sections, i, parsed_attributes) ==
    IF i > Len(sections)
    THEN [kind |-> "ok", attributes |-> parsed_attributes]
    ELSE LET r == parse_attribute_section(sections[i])
         IN  IF r.kind # "ok" THEN r
             ELSE ParseSections(sections, i + 1,
                                InsertAttribute(parsed_attributes, r.key, r.value))

parse_attributes(attributes_string) ==
    ParseSections(Split(attributes_string, WHITESPACE), 1, EmptyAttributes)

(***************************************************************************)
(* Parser: the scanning methods, as functions of the buffer and cursor.    *)
(***************************************************************************)
RECURSIVE ScanUntil(_, _, _)
\* the cursor after `while !self.eof() && self.current_char() != stop`
ScanUntil(inp, pos, stop) ==
    IF eof(inp, pos) \/ inp[pos + 1] = stop THEN pos
    ELSE ScanUntil(inp, pos + 1, stop)

\* get_tag_data, from cursor pos: its outcome and the cursor it leaves
get_tag_data(inp, pos) ==
    LET end == ScanUntil(inp, pos, GREATER_THAN)
        tag == SubSeq(inp, pos + 1, end)
    IN  IF eof(inp, end)
        \* line 209: current_char() with the cursor at the end of the buffer
        THEN [out |-> Panic("get_tag_data"), position |-> end]
        ELSE LET split_tag == SplitOnce(tag, WHITESPACE)
             IN  IF split_tag.found
                 THEN IF ~validate_identifier(split_tag.left)
                      THEN [out |-> InvalidIdentifierError(tag), position |-> end + 1]
                      ELSE LET attributes == parse_attributes(split_tag.right)
                           IN  IF attributes.kind # "ok"
                               THEN [out |-> attributes, position |-> end + 1]
                               ELSE [out |-> [kind |-> "ok",
                                              tag_name |-> split_tag.left,
                                              attributes |-> attributes.attributes],
                                     position |-> end + 1]
                 ELSE IF ~validate_identifier(tag)
                      THEN [out |-> InvalidIdentifierError(tag), position |-> end + 1]
                      ELSE [out |-> [kind |-> "ok", tag_name |-> tag,
                                     attributes |-> EmptyAttributes],
                            position |-> end + 1]

\* a skip_whitespaces that leaves the cursor where it is
SkipWhitespacesNoAdvance(inp, pos) == pos

RECURSIVE skip_whitespaces(_, _)
\* skip_whitespaces: the cursor after the run of 0x20 bytes
skip_whitespaces(inp, pos) ==
    IF eof(inp, pos) THEN pos
    ELSE IF inp[pos + 1] = WHITESPACE THEN skip_whitespaces(inp, pos + 1)
    ELSE pos

\* get_text_content, from cursor pos
get_text_content(inp, pos) ==
    LET lt == ScanUntil(inp, pos, LESS_THAN)
        gt == ScanUntil(inp, pos, GREATER_THAN)
    IN  IF gt < lt
        THEN [out |-> UnexpectedTokenError("text content", GREATER_THAN, gt),
              position |-> gt]
        ELSE [out |-> [kind |-> "ok", content |-> SubSeq(inp, pos + 1, lt)],
              position |-> lt]

(***************************************************************************)
(* The parser as a machine.  A state is the Parser (input, position), the  *)
(* stack of active get_element_content calls (each with the element it     *)
(* fills and the nodes collected so far), the control point, the outcome   *)
(* of parse() and the number of content-loop iterations begun.             *)
(***************************************************************************)
NoResult == [kind |-> "none"]

State == [input |-> input, position |-> position, pc |-> pc,
          stack |-> stack, result |-> result, iterations |-> iterations]

\* Parser::new(input)
NewParser(inp) ==
    [input |-> inp, position |-> 0, pc |-> "parse",
     stack |-> <<>>, result |-> NoResult, iterations |-> 0]

Frame(tag_name, attributes) ==
    [tag_name |-> tag_name, attributes |-> attributes, nodes |-> <<>>]

Top(s) == s.stack[Len(s.stack)]

current_char(s) == s.input[s.position + 1]

next_char(s) ==
    IF s.position + 1 >= Len(s.input) THEN GenericError(s.position)
    ELSE [kind |-> "ok", char |-> s.input[s.position + 2]]

\* parse() or a nested call ends with `out` (an error or a panic)
Fail(s, out, pos) ==
    [s EXCEPT !.position = pos, !.pc = "done", !.result = out]

\* an element's tag was read: get_element_content(&node) is entered
Enter(s, td) ==
    [s EXCEPT !.position = td.position,
              !.pc = "content",
              !.stack = Append(@, Frame(td.out.tag_name, td.out.attributes))]

\* a return that takes bytes after the root's closing tag for an error
ReturnRejectingTrailingBytes(s, pos) ==
    LET f == s.stack[Len(s.stack)]
        node == ElementNode(f.tag_name, f.attributes, f.nodes)
        depth == Len(s.stack)
    IN  IF depth = 1
        THEN IF pos < Len(s.input)
             THEN [s EXCEPT !.position = pos, !.pc = "done",
                            !.result = UnexpectedTokenError(<<>>, s.input[pos + 1], pos)]
             ELSE [s EXCEPT !.position = pos, !.pc = "done", !.stack = <<>>,
                            !.result = [kind |-> "ok", node |-> node]]
        ELSE [s EXCEPT !.position = pos,
                       !.stack = [SubSeq(@, 1, depth - 1) EXCEPT
                                     ![depth - 1].nodes = Append(@, node)]]

\* get_element_content returns Ok(nodes): lines 312-314, or 349-353 at the root
Return(s, pos) ==
    LET f == Top(s)
        node == ElementNode(f.tag_name, f.attributes, f.nodes)
        depth == Len(s.stack)
    IN  IF depth = 1
        THEN [s EXCEPT !.position = pos, !.pc = "done", !.stack = <<>>,
                       !.result = [kind |-> "ok", node |-> node]]
        ELSE [s EXCEPT !.position = pos,
                       !.stack = [SubSeq(@, 1, depth - 1) EXCEPT
                                     ![depth - 1].nodes = Append(@, node)]]

\* parse(), up to its call of get_element_content
ParseStep(s) ==
    IF Len(s.input) = 0 THEN Fail(s, Panic("parse"), s.position)
    ELSE IF current_char(s) # LESS_THAN
    THEN Fail(s, UnexpectedTokenError(LESS_THAN, current_char(s), s.position),
              s.position)
    ELSE LET td == get_tag_data(s.input, s.position + 1)
         IN  IF td.out.kind # "ok" THEN Fail(s, td.out, td.position)
             ELSE Enter(s, td)

\* the loop of get_element_content finds the end of the input
EofStep(s) == Fail(s, PrematureEndOfFileError(s.position), s.position)

Iterate(s) == [s EXCEPT !.iterations = @ + 1]

\* LESS_THAN arm, next_char() fails
NextCharStep(s) == Fail(Iterate(s), next_char(s), s.position)

\* LESS_THAN arm, next_character == SLASH
CloseTagStep(s) ==
    LET td == get_tag_data(s.input, s.position + 2)
    IN  IF td.out.kind # "ok" THEN Fail(Iterate(s), td.out, td.position)
        ELSE IF td.out.tag_name # Top(s).tag_name
        THEN IF eof(s.input, td.position)
             \* line 298: current_char() after the cursor passed the last byte
             THEN Fail(Iterate(s), Panic("get_element_content"), td.position)
             ELSE Fail(Iterate(s),
                       UnexpectedTokenError(<<"<", "/">> \o Top(s).tag_name \o <<">">>,
                                            s.input[td.position + 1], td.position),
                       td.position)
        ELSE Return(Iterate(s), td.position)

\* LESS_THAN arm, next_character != SLASH
OpenTagStep(s) ==
    LET td == get_tag_data(s.input, s.position + 1)
    IN  IF td.out.kind # "ok" THEN Fail(Iterate(s), td.out, td.position)
        ELSE Enter(Iterate(s), td)

\* WHITESPACE arm
WhitespaceStep(s) ==
    [Iterate(s) EXCEPT !.position = skip_whitespaces(s.input, s.position)]

\* the text arm
TextStep(s) ==
    LET tc == get_text_content(s.input, s.position)
        depth == Len(s.stack)
    IN  IF tc.out.kind # "ok" THEN Fail(Iterate(s), tc.out, tc.position)
        ELSE [Iterate(s) EXCEPT
                 !.position = tc.position,
                 !.stack[depth].nodes = Append(@, TextNode(Trim(tc.out.content)))]

(***************************************************************************)
(* Which step the code takes in a state.                                   *)
(***************************************************************************)
AtParse(s) == s.pc = "parse"
AtContent(s) == s.pc = "content"
AtEof(s) == AtContent(s) /\ eof(s.input, s.position)
AtLessThan(s) == AtContent(s) /\ ~eof(s.input, s.position) /\ current_char(s) = LESS_THAN
AtNextCharError(s) == AtLessThan(s) /\ next_char(s).kind = "err"
AtCloseTag(s) ==
    AtLessThan(s) /\ next_char(s).kind = "ok" /\ next_char(s).char = SLASH
AtOpenTag(s) ==
    AtLessThan(s) /\ next_char(s).kind = "ok" /\ next_char(s).char # SLASH
AtWhitespace(s) ==
    AtContent(s) /\ ~eof(s.input, s.position) /\ current_char(s) = WHITESPACE
AtText(s) ==
    AtContent(s) /\ ~eof(s.input, s.position)
    /\ current_char(s) \notin {LESS_THAN, WHITESPACE}

\* some arm of the code applies in s
StepApplies(s) ==
    \/ AtParse(s)
    \/ AtEof(s)
    \/ AtNextCharError(s)
    \/ AtCloseTag(s)
    \/ AtOpenTag(s)
    \/ AtWhitespace(s)
    \/ AtText(s)

Step(s) ==
    CASE AtParse(s) -> ParseStep(s)
      [] AtEof(s) -> EofStep(s)
      [] AtNextCharError(s) -> NextCharStep(s)
      [] AtCloseTag(s) -> CloseTagStep(s)
      [] AtOpenTag(s) -> OpenTagStep(s)
      [] AtWhitespace(s) -> WhitespaceStep(s)
      [] AtText(s) -> TextStep(s)
      [] OTHER -> s

RECURSIVE Run(_)
\* the state in which parse() ends
Run(s) == IF s.pc = "done" THEN s ELSE Run(Step(s))

\* Parser::new(inp).parse()
parse(inp) == Run(NewParser(inp))

(***************************************************************************)
(* The inputs: every string over a small alphabet up to a length, the      *)
(* documents <a>..</a> around every short text run, the documents          *)
(* <a ATTRS></a> for every short attribute string, and the examples of     *)
(* the specification.                                                      *)
(***************************************************************************)
StringsUpTo(alphabet, n) == UNION {[1..k -> alphabet] : k \in 0..n}

RawAlphabet == {"<", ">", "/", " ", "a", "\t"}

RawInputs == StringsUpTo(RawAlphabet, MaxRawLen)

TextAlphabet == {"x", " ", "\t", "\n"}

TextRuns == StringsUpTo(TextAlphabet, MaxTextLen)

\* the tags before and after a text run
TextContexts ==
    {<<<<"<", "a", ">">>, <<"<", "/", "a", ">">>>>,
     <<<<"<", "a", ">", "<", "b", ">">>, <<"<", "/", "b", ">", "<", "/", "a", ">">>>>,
     <<<<"<", "a", ">">>, <<"<", "b", ">", "<", "/", "b", ">", "<", "/", "a", ">">>>>,
     <<<<"<", "a", ">", "<", "b", ">", "<", "/", "b", ">">>, <<"<", "/", "a", ">">>>>}

TextDocs == {c[1] \o run \o c[2] : c \in TextContexts, run \in TextRuns}

AttrAlphabet == {"k", "=", "\"", " "}

AttrStrings == StringsUpTo(AttrAlphabet, MaxAttrLen)

AttrPrefix == <<"<", "a", " ">>

AttrSuffix == <<">", "<", "/", "a", ">">>

AttrDocs == {AttrPrefix \o attrs \o AttrSuffix : attrs \in AttrStrings}

Examples ==
    {
     <<"<", "d", "i", "v", ">", "c", "o", "n", "t", "e", "n", "t", "<",
      "/", "d", "i", "v", ">">>,
     <<"<", "d", "i", "v", ">", "x", "<", "/", "s", "p", "a", "n", ">">>,
     <<"<", "d", "i", "v">>,
     <<"<", "a", " ", "h", "r", "e", "f", "=", "\"", "x", "\"", ">", "y",
      "<", "/", "a", ">">>,
     <<"<", "a", " ", "h", "r", "e", "f", "=", "x", ">", "<", "/", "a",
      ">">>,
     <<"<", "a", " ", "h", "r", "e", "f", "=", "\"", "1", "\"", " ", "h",
      "r", "e", "f", "=", "\"", "2", "\"", ">", "<", "/", "a", ">">>,
     <<"<", "d", "i", "v", ">", "<", "/", "d", "i", "v", " ", "x", ">">>,
     <<"<", "d", "i", "v", ">", "<", "/", "d", "i", "v", " ", "a", "=",
      "b", ">">>,
     <<"<", "a", " ", "k", "=", ">", "<", "/", "a", ">">>,
     <<"<", "a", " ", "k", "=", "\"", ">", "<", "/", "a", ">">>,
     <<"<", "p", " ", "i", "d", "=", "\"", "1", "\"", " ", "c", " ", "i",
      "d", "=", "\"", "2", "\"", " ", "c", "=", "\"", "3", "\"", ">", "a",
      "\t", "b", " ", "<", "b", ">", " ", "x", "\n", "<", "/", "b", ">",
      "\t", "<", "/", "p", ">", "t", "a", "i", "l">>
    }

Inputs == RawInputs \cup TextDocs \cup AttrDocs \cup Examples

(***************************************************************************)
(* The specification: Parser::new on some input, then parse() step by      *)
(* step.                                                                   *)
(***************************************************************************)
Set(n) ==
    /\ input' = n.input
    /\ position' = n.position
    /\ pc' = n.pc
    /\ stack' = n.stack
    /\ result' = n.result
    /\ iterations' = n.iterations

Init ==
    /\ input \in Inputs
    /\ position = 0
    /\ pc = "parse"
    /\ stack = <<>>
    /\ result = NoResult
    /\ iterations = 0

ParseStart == AtParse(State) /\ Set(ParseStep(State))

ContentEof == AtEof(State) /\ Set(EofStep(State))

NextCharError == AtNextCharError(State) /\ Set(NextCharStep(State))

CloseTag == AtCloseTag(State) /\ Set(CloseTagStep(State))

OpenTag == AtOpenTag(State) /\ Set(OpenTagStep(State))

Whitespace == AtWhitespace(State) /\ Set(WhitespaceStep(State))

Text == AtText(State) /\ Set(TextStep(State))

Next ==
    \/ ParseStart
    \/ ContentEof
    \/ NextCharError
    \/ CloseTag
    \/ OpenTag
    \/ Whitespace
    \/ Text

Spec == Init /\ [][Next]_vars

Done == pc = "done"

(***************************************************************************)
(* Notions the properties use.                                             *)
(***************************************************************************)
RECURSIVE ElementsOf(_)
\* the Element nodes of a tree
ElementsOf(node) ==
    IF node.type = "Text" THEN {}
    ELSE {node} \cup UNION {ElementsOf(node.children[i]) : i \in 1..Len(node.children)}

Succeeded == Done /\ result.kind = "ok"

Contains(s, c) == \E i \in 1..Len(s) : s[i] = c

\* the cursor at which the step of state s starts to read a tag interior, when it does
ReadsTagInterior(s) ==
    \/ AtParse(s) /\ Len(s.input) > 0 /\ s.input[1] = LESS_THAN
    \/ AtOpenTag(s)
    \/ AtCloseTag(s)

InteriorStart(s) == IF AtCloseTag(s) THEN s.position + 2 ELSE s.position + 1

\* the input has a ">" at or after cursor pos
HasGreaterThanFrom(inp, pos) == \E i \in (pos + 1)..Len(inp) : inp[i] = GREATER_THAN

\* the interior of the closing tag at the cursor: the bytes between "</" and the next ">"
ClosingInterior(s) ==
    SubSeq(s.input, s.position + 3,
           ScanUntil(s.input, s.position + 2, GREATER_THAN))

\* content is run without a leading and a trailing stretch of characters of ws,
\* and neither starts nor ends with a character of ws
IsTrimmed(content, run, ws) ==
    \E lead \in 0..Len(run) :
        /\ lead + Len(content) <= Len(run)
        /\ content = SubSeq(run, lead + 1, lead + Len(content))
        /\ \A i \in 1..Len(run) :
              (i <= lead \/ i > lead + Len(content)) => run[i] \in ws
        /\ content # <<>> => content[1] \notin ws /\ content[Len(content)] \notin ws

\* the text run the text arm reads in state s: from the cursor to the next "<"
TextRunAt(s) ==
    SubSeq(s.input, s.position + 1, ScanUntil(s.input, s.position, LESS_THAN))

\* the text arm, in a state whose run holds no ">", appended Text(content) with
\* content the run trimmed of ws
TextArmTrims(ws) ==
    AtText(State) /\ ~Contains(TextRunAt(State), GREATER_THAN)
    => /\ pc' = "content"
       /\ Len(stack') = Len(stack)
       /\ LET before == stack[Len(stack)].nodes
              after == stack'[Len(stack)].nodes
          IN  /\ Len(after) = Len(before) + 1
              /\ SubSeq(after, 1, Len(before)) = before
              /\ after[Len(after)].type = "Text"
              /\ IsTrimmed(after[Len(after)].content, TextRunAt(State), ws)

\* the attribute string of the root tag: what follows the first space of its interior
RootInterior == SubSeq(input, 2, ScanUntil(input, 1, GREATER_THAN))

RootSections ==
    LET sp == SplitOnce(RootInterior, WHITESPACE)
    IN  IF sp.found THEN Split(sp.right, WHITESPACE) ELSE <<>>

\* the input is <a SECTION></a> with SECTION = key "=" value, key alphanumeric and
\* not empty, and no space, "<" or ">" in SECTION
SingleSectionDoc ==
    /\ Len(input) >= Len(AttrPrefix) + Len(AttrSuffix)
    /\ SubSeq(input, 1, Len(AttrPrefix)) = AttrPrefix
    /\ SubSeq(input, Len(input) - Len(AttrSuffix) + 1, Len(input)) = AttrSuffix
    /\ LET section == SubSeq(input, Len(AttrPrefix) + 1, Len(input) - Len(AttrSuffix))
           eq == IndexFrom(section, EQUALS, 1)
       IN  /\ \A i \in 1..Len(section) :
                  section[i] \notin {WHITESPACE, LESS_THAN, GREATER_THAN}
           /\ eq > 1
           /\ \A i \in 1..(eq - 1) : section[i] \in Letters \cup Digits

SectionKey ==
    LET section == SubSeq(input, Len(AttrPrefix) + 1, Len(input) - Len(AttrSuffix))
    IN  SubSeq(section, 1, IndexFrom(section, EQUALS, 1) - 1)

SectionValue ==
    LET section == SubSeq(input, Len(AttrPrefix) + 1, Len(input) - Len(AttrSuffix))
    IN  SubSeq(section, IndexFrom(section, EQUALS, 1) + 1, Len(section))

TailAlphabet == {"<", ">", " ", "a"}

\* the byte strings put after a document
Tails == StringsUpTo(TailAlphabet, MaxTailLen)

(***************************************************************************)
(* The properties.                                                         *)
(***************************************************************************)

\* C1: parse() ends with the root Node or with one ParserError, for every input:
\* it never aborts on a read of the buffer at or past its length.
C1_ParseEndsInNodeOrError == Done => result.kind \in {"ok", "err"}

\* C2: a step that reads a closing tag </name> whose name differs from the open
\* element's tag name ends the parse with UnexpectedToken, wherever the tag stands.
C2_MismatchedCloserIsUnexpectedToken ==
    [][(/\ AtCloseTag(State)
        /\ HasGreaterThanFrom(input, position + 2)
        /\ validate_identifier(ClosingInterior(State))
        /\ ClosingInterior(State) # Top(State).tag_name)
       => /\ pc' = "done"
          /\ result'.kind = "err"
          /\ result'.error = "UnexpectedToken"]_vars

\* C3: a step that reads a tag interior (after "<" or "</") with no ">" left in
\* the input ends the parse with PrematureEndOfFile.
C3_UnterminatedTagIsPrematureEndOfFile ==
    [][(/\ ReadsTagInterior(State)
        /\ ~HasGreaterThanFrom(input, InteriorStart(State)))
       => /\ pc' = "done"
          /\ result'.kind = "err"
          /\ result'.error = "PrematureEndOfFile"]_vars

\* C4: for an attribute section key=value with an alphanumeric key, a value that is
\* a pair of double quotes around some text is stored without the two quotes, and
\* every other value (the empty one and a lone quote included) fails the parse with
\* InvalidAttributeValue.
C4_AttributeValueQuotedOrInvalid ==
    Done /\ SingleSectionDoc
    => LET value == SectionValue
       IN  IF Len(value) >= 2 /\ value[1] = QUOTE /\ value[Len(value)] = QUOTE
           THEN /\ result.kind = "ok"
                /\ SectionKey \in DOMAIN result.node.attributes
                /\ result.node.attributes[SectionKey] = SubSeq(value, 2, Len(value) - 1)
           ELSE /\ result.kind = "err"
                /\ result.error = "InvalidAttributeValue"

C6_TagNamesNonEmptyAlphanumeric ==
    Succeeded =>
        \A e \in ElementsOf(result.node) :
            /\ e.tag_name # <<>>
            /\ \A i \in 1..Len(e.tag_name) : e.tag_name[i] \in Letters \cup Digits

\* C7: the attribute map of the root Element holds exactly the keys of the tag's
\* attribute sections, each with the value of its first section in source order.
C7_FirstOccurrenceWins ==
    Succeeded =>
        LET sections == RootSections
            kv(i) == parse_attribute_section(sections[i])
            attributes == result.node.attributes
        IN  /\ DOMAIN attributes = {kv(i).key : i \in 1..Len(sections)}
            /\ \A i \in 1..Len(sections) :
                  (\A j \in 1..(i - 1) : kv(j).key # kv(i).key)
                  => attributes[kv(i).key] = kv(i).value

\* C7 witness: a parse succeeded on a root tag in which a key occurs twice with
\* two different values.
C7_Witness ==
    /\ Succeeded
    /\ LET sections == RootSections
           kv(i) == parse_attribute_section(sections[i])
       IN  \E i, j \in 1..Len(sections) :
               i < j /\ kv(i).key = kv(j).key /\ kv(i).value # kv(j).value

\* C8: a step that reads a closing tag whose interior holds more than a name (a
\* space and more) never accepts it as a closer and never fails with an attribute
\* error: the whole interior is validated as a tag name.
C8_CloserInteriorNotParsedAsAttributes ==
    [][(/\ AtCloseTag(State)
        /\ HasGreaterThanFrom(input, position + 2)
        /\ Contains(ClosingInterior(State), WHITESPACE))
       => /\ pc' = "done"
          /\ result'.kind # "ok"
          /\ result'.kind = "err" =>
                /\ result'.error # "InvalidAttributeValue"
                /\ result'.error = "InvalidIdentifier"
                   => result'.detail.identifier = ClosingInterior(State)]_vars

\* C9: the cursor never decreases; every content-loop iteration that does not end
\* the parse moves it forward by at least one byte; at most Len(input) iterations
\* are begun over all recursion levels; and the parse is never stuck before its
\* end, so it ends after at most Len(input) iterations.
C9_CursorAdvancesAndParseEnds ==
    /\ [][/\ position' >= position
          /\ (AtContent(State) /\ pc' # "done")
             => position' > position /\ iterations' = iterations + 1]_vars
    /\ [](iterations <= Len(input))
    /\ [](Done \/ StepApplies(State))

\* C9 witness: a parse that ended after three or more iterations, at the end of
\* the input.
C9_Witness == Done /\ iterations >= 3 /\ position = Len(input)

\* C10: a successful parse leaves the cursor right after the ">" of the root's
\* closing tag, and the input cut there, followed by any bytes, parses to the same
\* tree with the cursor at the same place.
C10_TrailingBytesIgnored ==
    Succeeded =>
        /\ position >= 1
        /\ position <= Len(input)
        /\ input[position] = GREATER_THAN
        /\ \A tail \in Tails :
              LET end == parse(SubSeq(input, 1, position) \o tail)
              IN  end.result = result /\ end.position = position

\* C10 witness: a parse succeeded on an input with bytes after the root's closing tag.
C10_Witness == Succeeded /\ position < Len(input)

====
